---- MODULE Spec2Model ----
(***************************************************************************)
(* Model of cwcu.py: the scrolling temperature graph (graph_tick,          *)
(* temp_to_color_bgr), the ticker (draw_bottom_bar), the frame composer    *)
(* (make_frame) and the pacing loop of main().                             *)
(*                                                                         *)
(* Images are functions x -> y -> colour over 0-based pixel coordinates,   *)
(* colours are <<r, g, b>> triples. Temperatures are whole degrees; the    *)
(* float expressions of the source are computed exactly as fractions       *)
(* (numerator, denominator) and truncated where the source truncates.      *)
(* An optional value is <<>> (None) or <<v>>.                              *)
(* Time is counted in clock units; one display interval is Res units.      *)
(***************************************************************************)
EXTENDS Integers, Sequences, FiniteSets, TLC

VARIABLES
    clock,            \* time.perf_counter() at the top of the next loop iteration
    next_t,           \* main: display deadline
    ip_next,          \* main: IP poll deadline
    next_tick,        \* main: graph deadline
    frame_idx,        \* main: shared icon frame counter
    ip_cache,         \* main: cached IP text
    fake_prev,        \* module global _fake_prev
    current_ambient,  \* main: last ambient reading
    ticker_offset,    \* main: ticker scroll offset
    graph_img,        \* module global graph_img (GRID_W x GRID_H pixels)
    icon_frames,      \* module global icon_frames: the number of frames of each icon
    bg,               \* module global bg: the static background
    pc,               \* where the program is: "load", "loop", "fatal" or "crashed"
    shown,            \* the frame last given to device.display, <<>> or <<img>>
    net_ip,           \* environment: what get_ip_fast() returns
    sensor,           \* environment: what read_ambient_c() returns (<<>> = None)
    hist,             \* history of the run (bookkeeping for the properties)
    samples,          \* arguments of the graph_tick calls so far, newest first
    call              \* the last direct call of a function and its result

vars == <<clock, next_t, ip_next, next_tick, frame_idx, ip_cache, fake_prev,
          current_ambient, ticker_offset, graph_img, icon_frames, shown,
          net_ip, sensor, hist, samples, call, bg, pc>>

-----------------------------------------------------------------------------
(* Configuration block of the source.                                      *)

TARGET_FPS == 5
IP_REFRESH_S == 1
TICK_S == 2
AMBIENT_DEFAULT == 20
TEMP_MAX_DEFAULT == 50
STEP_W == 3
H_GRID_STEP == 3
TICKER_SPACER_PX == 24
TICKER_SPEED_PX == 1
GRID_COLOR_V == <<30, 30, 30>>
GRID_COLOR_H == <<30, 30, 30>>
BOTTOM_LABEL == "Temp."
FANS == 1
PROBES == 0
PUMPS == 1
FLOW == 0
ICON_NAMES == <<"fan", "probe", "pump", "flow">>

STATE_COLORS(state) ==
    CASE state = 1 -> <<255, 255, 255>>
      [] state = 2 -> <<255, 210, 31>>
      [] state = 3 -> <<255, 59, 48>>
      [] OTHER     -> <<50, 50, 50>>

None == <<>>
Some(v) == <<v>>
Max(a, b) == IF a >= b THEN a ELSE b
Min(a, b) == IF a <= b THEN a ELSE b

-----------------------------------------------------------------------------
(* Geometry of the temperature grid.                                       *)

line_y_upd == 18 + (72 \div 2)
AX0 == 1
AY0 == line_y_upd + 1
AX1 == 122
AY1 == 86
GRID_W == AX1 - AX0 + 1
GRID_H == AY1 - AY0 + 1

BLACK == <<0, 0, 0>>

\* the static background built once at import: its size and the white line
\* above the graph area
WIDTH == 128
HEIGHT == 96
BG == [w |-> WIDTH, h |-> HEIGHT, line_y_upd |-> line_y_upd]

\* Image.new("RGB", (w, h), "black")
NewImage(w, h) == [x \in 0 .. w - 1 |-> [y \in 0 .. h - 1 |-> BLACK]]

\* the value of an expression, computed once: the operators on images below
\* take their image through it, so that an image used more than once in a
\* body is not built more than once
Only(S) == CHOOSE v \in S : TRUE

ImgW(img) == Cardinality(DOMAIN img)
ImgH(img) == Cardinality(DOMAIN img[0])


\* rows ya .. yb of one column painted, rows outside the image dropped
RECURSIVE PaintRows(_, _, _, _)
PaintRows(col0, ya0, yb0, fill0) ==
    Only({IF ya > yb THEN col
          ELSE PaintRows(IF ya \in DOMAIN col THEN [col EXCEPT ![ya] = fill]
                         ELSE col,
                         ya + 1, yb, fill) :
          <<col, ya, yb, fill>> \in {<<col0, ya0, yb0, fill0>>}})

RECURSIVE PaintCols(_, _, _, _, _, _)
PaintCols(img0, xa0, xb0, ya0, yb0, fill0) ==
    Only({IF xa > xb THEN img
          ELSE PaintCols(IF xa \in DOMAIN img
                         THEN [img EXCEPT ![xa] = PaintRows(@, ya, yb, fill)]
                         ELSE img,
                         xa + 1, xb, ya, yb, fill) :
          <<img, xa, xb, ya, yb, fill>> \in {<<img0, xa0, xb0, ya0, yb0, fill0>>}})

\* ImageDraw.line between two points of one row or one column: both end
\* points are painted, pixels outside the image are dropped.
DrawLine(img, xa, ya, xb, yb, fill) ==
    PaintCols(img, Min(xa, xb), Max(xa, xb), Min(ya, yb), Max(ya, yb), fill)

\* base.paste(overlay, (px, 0)) for an overlay of the base's height
PasteCols(img0, overlay0, px) ==
    Only({[x \in DOMAIN img |->
             IF px <= x /\ x < px + ow THEN overlay[x - px] ELSE img[x]] :
          <<img, overlay, ow>> \in {<<img0, overlay0, ImgW(overlay0)>>}})

\* img.crop((x0, 0, w, h))
CropCols(img0, x0) ==
    Only({[x \in 0 .. ImgW(img) - x0 - 1 |-> img[x + x0]] : img \in {img0}})

-----------------------------------------------------------------------------
(* Colour gradient.                                                        *)

BAR_BLUE == <<255, 0, 0>>
BAR_GREEN == <<0, 255, 0>>
BAR_YELLOW == <<0, 255, 255>>
BAR_RED == <<0, 0, 255>>
\* A missing reading drawn as a hot one.
MissingAsRed == <<0, 0, 255>>

NEUTRAL_BGR == <<120, 120, 120>>

bgr_to_rgb(c) == <<c[3], c[2], c[1]>>

\* Sign of the rounding error of the double u that the source computes for
\* t = n / d (above or below the exact ratio), where it decides a rounding
\* tie of lerp; from evaluating the source's expressions in IEEE doubles
\* over the scale 20..50 that main() uses. 0: no tie depends on it.
UBias(n, d) ==
    IF d = TEMP_MAX_DEFAULT - AMBIENT_DEFAULT
    THEN IF n \in {13, 15, 17, 23, 25, 27, 29} THEN 1
         ELSE IF n \in {11, 19, 21} THEN 0 - 1 ELSE 0
    ELSE 0

\* lerp(a, b, t) = int(a + (b - a) * t + 0.5) for t = tn / td, td > 0.
\* The value truncated is never negative here, so int() is the floor; at an
\* exact tie the double lies a hair off the tie, on the side bias gives.
lerp(a, b, tn, td, bias) ==
    LET num == 2 * a * td + 2 * (b - a) * tn + td
        q == num \div (2 * td)
    IN  IF /\ num % (2 * td) = 0
           /\ \/ b > a /\ bias < 0
              \/ b < a /\ bias > 0
        THEN q - 1 ELSE q

\* The normalised position t = n / d of temp in [ambient, tmax], as <<n, d>>:
\* max(0.0, min(1.0, (temp - ambient) / (tmax - ambient))) for tmax > ambient.
Clamp01(temp, ambient, tmax) ==
    <<Max(0, Min(tmax - ambient, temp - ambient)), tmax - ambient>>

\* The three-segment ramp over four stops at t = n / d, 0 <= t <= 1:
\* u = (t - k/3) / (1/3) = (3n - k*d) / d within segment k.
Gradient(stops, n, d) ==
    LET seg == IF 3 * n <= d THEN <<3 * n, stops[1], stops[2]>>
               ELSE IF 3 * n <= 2 * d THEN <<3 * n - d, stops[2], stops[3]>>
               ELSE <<3 * n - 2 * d, stops[3], stops[4]>>
        un == seg[1]
        c0 == seg[2]
        c1 == seg[3]
        e == UBias(n, d)
    IN  <<lerp(c0[1], c1[1], un, d, e), lerp(c0[2], c1[2], un, d, e),
          lerp(c0[3], c1[3], un, d, e)>>

\* the stops in the order the branches of temp_to_color_bgr use them
CODE_STOPS == <<BAR_RED, BAR_YELLOW, BAR_GREEN, BAR_BLUE>>

temp_to_color_bgr(temp, ambient, tmax) ==
    IF temp = None THEN NEUTRAL_BGR
    ELSE
      LET t == IF tmax <= ambient THEN <<1, 1>>
               ELSE Clamp01(temp[1], ambient, tmax)
      IN  Gradient(CODE_STOPS, t[1], t[2])

-----------------------------------------------------------------------------
(* Scrolling graph.                                                        *)

\* draw_h_grid_segment: a line every H_GRID_STEP rows, in columns x0 .. x1
RECURSIVE HGridFrom(_, _, _, _, _)
HGridFrom(img, x0, x1, h, y) ==
    IF y >= h THEN img
    ELSE HGridFrom(DrawLine(img, x0, y, x1, y, GRID_COLOR_H), x0, x1, h,
                   y + H_GRID_STEP)

draw_h_grid_segment(img, x0, x1, h) == HGridFrom(img, x0, x1, h, 0)

\* bar_h = int(frac * (h - 1))
BarRound(temp, ambient, tmax, h) ==
    IF temp # None /\ tmax > ambient
    THEN LET f == Clamp01(temp[1], ambient, tmax)
         IN  (2 * f[1] * (h - 1) + f[2]) \div (2 * f[2])
    ELSE 0

BarH(temp, ambient, tmax, h) ==
    IF temp # None /\ tmax > ambient
    THEN LET f == Clamp01(temp[1], ambient, tmax)
         IN  (f[1] * (h - 1)) \div f[2]
    ELSE 0

\* the 2-px bar: columns bx0 .. bx0 + bar_cols - 1 that are not the last column
RECURSIVE DrawBar(_, _, _, _, _, _, _)
DrawBar(img0, bx0, dx, bar_cols, y0, h, col) ==
    Only({IF dx >= bar_cols THEN img
          ELSE LET x == bx0 + dx
                   w == ImgW(img)
                   drawn == IF x <= w - 2
                            THEN DrawLine(img, x, y0, x, h - 1, col) ELSE img
               IN  DrawBar(drawn, bx0, dx + 1, bar_cols, y0, h, col) :
          img \in {img0}})

ScrollBy(img, step) ==
    LET w == ImgW(img)
        h == ImgH(img)
    IN  IF step > 0
        THEN PasteCols(PasteCols(img, CropCols(img, step), 0),
                       NewImage(step, h), w - step)
        ELSE img

ScrollTwice(img, step) == ScrollBy(ScrollBy(img, step), step)

Scroll(img, step) == ScrollBy(img, step)

graph_tick(img, temp_value, ambient, tmax) ==
    LET w == ImgW(img)
        h == ImgH(img)
        scrolled == Scroll(img, STEP_W)
        seg_x0 == w - STEP_W
        seg_x1 == w - 2
        gridded == IF seg_x0 <= seg_x1
                   THEN draw_h_grid_segment(scrolled, seg_x0, seg_x1, h)
                   ELSE scrolled
        bar_h == BarH(temp_value, ambient, tmax, h)
        y0 == (h - 1) - bar_h
        col_rgb == bgr_to_rgb(temp_to_color_bgr(temp_value, ambient, tmax))
        bar_cols == Max(2, STEP_W - 1)
    IN  Only({DrawLine(barred, w - 1, 0, w - 1, h - 1, GRID_COLOR_V) :
              barred \in {DrawBar(g, w - STEP_W, 0, bar_cols, y, h, c) :
                          <<g, y, c>> \in {<<gridded, y0, col_rgb>>}}})

-----------------------------------------------------------------------------
(* Bottom bar with the ticker.                                             *)

BOTTOM_BAR_RECT == <<1, 87, 122, 94>>

\* advance of one character of the default bitmap font, in pixels
CHAR_W == 6

\* _text_width: int(draw.textlength(text, font=font))
text_width(text) == CHAR_W * Len(text)

\* f"{v:0.1f}" of a whole number of degrees
Fmt1(v) == ToString(v) \o ".0"

\* the degree sign and "C" (two characters)
DEG_C == "'C"

\* main: " | ".join(parts) with last_log = "ready" and warn_msg = ""
TickerText(ip, ambient) ==
    "IP " \o ip \o " | " \o "Ambient " \o Fmt1(ambient) \o DEG_C \o " | "
    \o "Log " \o "ready"

\* The returned offset (lines 349-353) for a text width tw.
PinEmptyText(offset_px, tw, speed, spacer) ==
    LET cycle == tw + spacer
    IN  IF cycle <= 0 \/ tw = 0 THEN 0 ELSE (offset_px + speed) % cycle

NoWrap(offset_px, tw, speed, spacer) == offset_px + speed

NextOffset(offset_px, tw, speed, spacer) ==
    LET cycle == tw + spacer
    IN  IF cycle <= 0 THEN 0 ELSE (offset_px + speed) % cycle

\* draw_bottom_bar under a configuration (speed, spacer) of the ticker: where
\* the text is drawn, whether the second copy is drawn, the returned offset.
DrawBottomBarWith(label, ticker_text, offset_px, speed, spacer) ==
    LET bar_w == BOTTOM_BAR_RECT[3] - BOTTOM_BAR_RECT[1] + 1
        label_w == text_width(label) + 2
        ticker_x0 == label_w
        tw == text_width(ticker_text)
        x == ticker_x0 - offset_px
    IN  [label |-> label, text |-> ticker_text, tw |-> tw,
         offset_in |-> offset_px, x |-> x - 1,
         second |-> IF x + tw < bar_w THEN Some(x + tw + spacer - 1) ELSE None,
         new_offset |-> NextOffset(offset_px, tw, speed, spacer)]

draw_bottom_bar(label, ticker_text, offset_px) ==
    DrawBottomBarWith(label, ticker_text, offset_px, TICKER_SPEED_PX,
                      TICKER_SPACER_PX)

-----------------------------------------------------------------------------
(* Frame composition.                                                      *)

\* frames[0] if state == 0 else frames[frame_idx % len(frames)]
AlwaysAnimate(state, idx, n) == idx % n

IconFrame(state, idx, n) ==
    IF state = 0 THEN 0 ELSE idx % n

\* state = states[idx] if idx < len(states) else 0
TileStateWrap(states, idx) ==
    IF Len(states) = 0 THEN 0 ELSE states[(idx % Len(states)) + 1]

TileState(states, idx) == IF idx < Len(states) THEN states[idx + 1] ELSE 0

StateLabel(state) ==
    IF state = 0 THEN "No"
    ELSE IF state = 1 THEN "OK"
    ELSE IF state = 2 THEN "Warn" ELSE "Bad"

\* img = bg.copy(): the image to draw on, and bg after the call
bg_copy(b) == [img |-> b, bg |-> b]

\* img.paste(graph_img, (AX0, AY0)) of draw_temp_grid: what is pasted into
\* the frame, and graph_img after the call
paste_and_scroll(graph) == [pasted |-> graph, graph_img |-> ScrollBy(graph, STEP_W)]

draw_temp_grid(graph) ==
    Only({[pasted |-> g, graph_img |-> g] : g \in {graph}})

\* make_frame: the tiles, the grid with its two labels and the bottom bar of
\* the image returned, the new ticker offset, and the module globals bg and
\* graph_img as the call leaves them.
make_frame(fidx, ip_text, states, ambient, ticker_text, offset_px, graph, frames) ==
    LET tile(idx) ==
            LET state == TileState(states, idx)
            IN  [state |-> state,
                 color |-> STATE_COLORS(state),
                 name |-> ICON_NAMES[idx + 1],
                 icon |-> IconFrame(state, fidx, frames[idx + 1]),
                 label |-> StateLabel(state)]
        bar == DrawBottomBarWith(BOTTOM_LABEL, ticker_text, offset_px,
                                 TICKER_SPEED_PX, TICKER_SPACER_PX)
        base == bg_copy(bg)
        grid == draw_temp_grid(graph)
    IN  [img |-> [frame_idx |-> fidx,
                  base |-> base.img,
                  tiles |-> [idx \in 0 .. 3 |-> tile(idx)],
                  graph |-> grid.pasted,
                  max_txt |-> ToString(TEMP_MAX_DEFAULT) \o DEG_C,
                  amb_txt |-> Fmt1(ambient) \o DEG_C,
                  bar |-> bar],
         new_offset |-> bar.new_offset,
         globals |-> [bg |-> base.bg, graph_img |-> grid.graph_img]]

\* MAX_FRAMES = max(len(frames) for frames in icon_frames.values())
RECURSIVE SeqMax(_)
SeqMax(q) == IF Len(q) = 1 THEN q[1] ELSE Max(q[1], SeqMax(Tail(q)))

MAX_FRAMES == SeqMax(icon_frames)

-----------------------------------------------------------------------------
(* State of main() before the loop, and of the module globals.             *)

Res == 2

target_dt == Res
IP_REFRESH == IP_REFRESH_S * TARGET_FPS * Res
TICK == TICK_S * TARGET_FPS * Res

FAKE_START == 30

NoHist ==
    [frames |-> 0, polls |-> 0, ticks |-> 0, overran |-> FALSE,
     overruns |-> 0, iter_end |-> 0, tick_at |-> None, tick_due |-> None,
     tick_prev_at |-> None, changes |-> 0, fake_used |-> FALSE,
     prev_tw |-> None, ticked |-> FALSE, raised |-> "nothing"]

NoCall == [fn |-> "none"]

MainInit ==
    /\ clock = 0
    /\ next_t = 0
    /\ frame_idx = 0
    /\ ip_cache = "No IP"
    /\ ip_next = 0
    /\ next_tick = 0 + TICK
    /\ bg = BG
    /\ fake_prev = FAKE_START
    /\ current_ambient = AMBIENT_DEFAULT
    /\ ticker_offset = 0
    /\ graph_img = NewImage(GRID_W, GRID_H)
    /\ shown = None
    /\ hist = NoHist
    /\ samples = <<>>
    /\ call = NoCall

\* the number of whole samples the buffer holds
Capacity == GRID_W \div STEP_W

\* the calls of graph_tick, newest first, as far back as the buffer reaches
Remember(args) ==
    IF Len(samples) < Capacity + 1 THEN <<args>> \o samples
    ELSE <<args>> \o SubSeq(samples, 1, Capacity)

mainVars == <<clock, next_t, ip_next, next_tick, frame_idx, ip_cache, fake_prev,
              current_ambient, ticker_offset, shown, net_ip, sensor, hist>>

-----------------------------------------------------------------------------
(* The loop of main().                                                     *)

\* largest step of the fake series in whole degrees: drift 0.6, jitter 0.75
\* and a bump of 2.8
FAKE_JUMP == 4

\* next_fake_temp: the values the clamped random walk can return
next_fake_temp(prev, ambient, tmax) ==
    {Max(ambient, Min(tmax, prev + d)) : d \in (0 - FAKE_JUMP) .. FAKE_JUMP}

\* what the fake series returns when it does not move
FakeSteady == Max(AMBIENT_DEFAULT, Min(TEMP_MAX_DEFAULT, fake_prev))

\* ambient_c after lines 431-433: the reading, or the fake value when the
\* sensor gave none
FallbackAlways(reading, fake) == fake

Fallback(reading, fake) == IF reading = None THEN fake ELSE reading[1]

\* `if now >= ip_next`, `if now >= next_tick`
DueAfterOneMore(now, deadline) == now >= deadline + target_dt

Due(now, deadline) == now >= deadline

\* The ticker text and the frame are composed (lines 441-450) after the
\* graph advance (lines 430-437): of a value before and after the advance
\* they see the one after.
SeenBeforeTick(before, after) == before

SeenByFrame(before, after) == after

\* the deadline updates of the three tasks
ResyncTick(now, deadline) == now + TICK

FrameFromNow(now, deadline) == now + target_dt

NextTick(now, deadline) == deadline + TICK

NextPoll(now, deadline) == now + IP_REFRESH

NextFrame(now, deadline) == deadline + target_dt

\* One iteration of `while True`, from the reading of `now` to the end of
\* the sleep. work: the time from `now` to the perf_counter() of line 456;
\* over: how long time.sleep() oversleeps; ip: what get_ip_fast() returns;
\* reading: what read_ambient_c() returns; fake: what next_fake_temp returns.
Iterate(work, over, ip, reading, fake) ==
    LET now == clock
        poll == Due(now, ip_next)
        ip1 == IF poll THEN ip ELSE ip_cache
        tick == Due(now, next_tick)
        ambient_c == Fallback(reading, fake)
        amb1 == IF tick THEN ambient_c ELSE current_ambient
        args == <<Some(ambient_c), AMBIENT_DEFAULT, TEMP_MAX_DEFAULT>>
        graph1 == IF tick THEN graph_tick(graph_img, args[1], args[2], args[3])
                  ELSE graph_img
        amb2 == SeenByFrame(current_ambient, amb1)
        text == TickerText(ip1, amb2)
        nt == NextFrame(now, next_t)
        end == now + work
        sleep == nt - end
    IN  /\ pc = "loop"
        /\ \E fr \in {make_frame(frame_idx, ip1, <<FANS, PROBES, PUMPS, FLOW>>,
                                   amb2, text, ticker_offset, graph, icon_frames) :
                            graph \in {SeenByFrame(graph_img, graph1)}} :
           /\ ip_cache' = ip1
           /\ ip_next' = IF poll THEN NextPoll(now, ip_next) ELSE ip_next
           /\ fake_prev' = IF tick THEN ambient_c ELSE fake_prev
           /\ current_ambient' = amb1
           /\ graph_img' = fr.globals.graph_img
           /\ bg' = fr.globals.bg
           /\ next_tick' = IF tick THEN NextTick(now, next_tick) ELSE next_tick
           /\ shown' = Some(fr.img)
           /\ ticker_offset' = fr.new_offset
           /\ frame_idx' = (frame_idx + 1) % MAX_FRAMES
           /\ next_t' = IF sleep > 0 THEN nt ELSE end
           /\ clock' = IF sleep > 0 THEN nt + over ELSE end
           /\ net_ip' = ip
           /\ sensor' = reading
           /\ samples' = IF tick THEN Remember(args) ELSE samples
           /\ hist' = [hist EXCEPT
                         !.frames = @ + 1,
                         !.polls = IF poll THEN @ + 1 ELSE @,
                         !.ticks = IF tick THEN @ + 1 ELSE @,
                         !.overran = @ \/ sleep <= 0,
                         !.overruns = IF sleep <= 0 THEN @ + 1 ELSE @,
                         !.iter_end = end,
                         !.tick_at = IF tick THEN Some(now) ELSE @,
                         !.tick_due = IF tick THEN Some(next_tick) ELSE @,
                         !.tick_prev_at = IF tick THEN hist.tick_at ELSE @,
                         !.changes = @ + (IF ip # net_ip THEN 1 ELSE 0)
                                       + (IF reading # sensor THEN 1 ELSE 0)
                                       + (IF fake # FakeSteady THEN 1 ELSE 0),
                         !.fake_used = tick /\ reading = None,
                         !.ticked = tick,
                         !.prev_tw = IF shown = None THEN None
                                     ELSE Some(shown[1].bar.tw)]
           /\ UNCHANGED <<icon_frames, call, pc>>

-----------------------------------------------------------------------------
(* Runs of the loop.                                                       *)

\* Pacing under load: every iteration may take any of the work times below
\* and every sleep may oversleep by less than one display interval; at most
\* MaxOverruns iterations of a run miss their display deadline.
SchedSecs == 5
MaxOverruns == 1

SchedHorizon == SchedSecs * TARGET_FPS * Res

\* time.sleep() returns on time or as late as it can short of one display
\* interval
Oversleeps == {0, target_dt - 1}

\* no work, a whole display interval, or a stall of more than a graph interval
SchedWorks == {0, target_dt, TICK + target_dt + 1}

SchedInit ==
    /\ MainInit
    /\ pc = "loop"
    /\ icon_frames = <<1, 1, 1, 1>>
    /\ net_ip = "10.0.0.5"
    /\ sensor = Some(35)

SchedStep(work, over) ==
    /\ clock < SchedHorizon
    /\ IF NextFrame(clock, next_t) - (clock + work) > 0 THEN TRUE
       ELSE over = 0 /\ hist.overruns < MaxOverruns
    /\ Iterate(work, over, net_ip, sensor, FakeSteady)

SchedNext == \E work \in SchedWorks, over \in Oversleeps : SchedStep(work, over)

SpecSched == SchedInit /\ [][SchedNext]_vars

\* Pacing without overrun: no iteration misses its display deadline, every
\* sleep may oversleep by less than one display interval.
JitterSecs == 14

JitterHorizon == JitterSecs * TARGET_FPS * Res

JitterStep(over) ==
    /\ clock < JitterHorizon
    /\ Iterate(0, over, net_ip, sensor, FakeSteady)

JitterNext == \E over \in Oversleeps : JitterStep(over)

SpecJitter == SchedInit /\ [][JitterNext]_vars

\* The loop on time, with a changing network: the address get_ip_fast
\* returns changes at most MaxChanges times in a run (a change shows when
\* the address is read, at a poll).  The sensor either never answers (the
\* fake series stands in, here without jumps) or always reads the same.
MaxFrames == 260
MaxChanges == 2

Ips == {"No IP", "10.0.0.5", "192.168.100.100"}

Init ==
    /\ MainInit
    /\ pc = "loop"
    /\ icon_frames = <<2, 2, 3, 1>>
    /\ net_ip \in Ips
    /\ sensor \in {None, Some(5)}

Step(ip) ==
    /\ hist.frames < MaxFrames
    /\ ip # net_ip => (clock >= ip_next /\ hist.changes < MaxChanges)
    /\ Iterate(0, 0, ip, sensor, FakeSteady)

Next ==
    \E ip \in Ips : Step(ip)

Spec == Init /\ [][Next]_vars

\* The loop on time, with a changing sensor: at every graph tick
\* read_ambient_c returns any of Readings, and when it returns None
\* next_fake_temp returns any value of its range.
LoopFrames == 35

Readings == {None, Some(5), Some(35)}

LoopInit ==
    /\ MainInit
    /\ pc = "loop"
    /\ icon_frames = <<2, 2, 3, 1>>
    /\ net_ip = "10.0.0.5"
    /\ sensor \in Readings

LoopStep(reading, fake) ==
    /\ hist.frames < LoopFrames
    /\ reading # sensor => clock >= next_tick
    /\ fake # FakeSteady => (clock >= next_tick /\ reading = None)
    /\ Iterate(0, 0, net_ip, reading, fake)

LoopNext ==
    \E reading \in Readings,
       fake \in next_fake_temp(fake_prev, AMBIENT_DEFAULT, TEMP_MAX_DEFAULT) :
        LoopStep(reading, fake)

SpecLoop == LoopInit /\ [][LoopNext]_vars

-----------------------------------------------------------------------------
(* The graph buffer driven directly: graph_tick called with any arguments. *)

MaxTicks == 42

\* (temp_value, ambient, tmax) of a call
GraphArgs ==
    {<<None, AMBIENT_DEFAULT, TEMP_MAX_DEFAULT>>}
    \cup {<<Some(v), AMBIENT_DEFAULT, TEMP_MAX_DEFAULT>> : v \in {10, 20, 35, 50}}
    \cup {<<Some(35), 30, 30>>, <<Some(35), 40, 30>>}

\* One call graph_tick(temp_value, ambient, tmax). The arguments stay those
\* of the previous call, or change once in a run (a step in the readings).
GraphTickCall(args) ==
    /\ hist.ticks < MaxTicks
    /\ IF samples = <<>> THEN TRUE
       ELSE IF args = samples[1] THEN TRUE
       ELSE hist.changes = 0
    /\ graph_img' = graph_tick(graph_img, args[1], args[2], args[3])
    /\ samples' = Remember(args)
    /\ hist' = [hist EXCEPT !.ticks = @ + 1,
                            !.changes = IF samples = <<>> THEN @
                                        ELSE IF args # samples[1] THEN @ + 1
                                        ELSE @]
    /\ call' = [fn |-> "graph_tick", args |-> args]
    /\ UNCHANGED <<clock, next_t, ip_next, next_tick, frame_idx, ip_cache,
                   fake_prev, current_ambient, ticker_offset, icon_frames,
                   shown, net_ip, sensor, bg, pc>>

GraphInit ==
    /\ MainInit
    /\ pc = "loop"
    /\ icon_frames = <<1, 1, 1, 1>>
    /\ net_ip = "No IP"
    /\ sensor = None

GraphNext == \E args \in GraphArgs : GraphTickCall(args)

SpecGraph == GraphInit /\ [][GraphNext]_vars

-----------------------------------------------------------------------------
(* temp_to_color_bgr, draw_bottom_bar and make_frame called directly: one   *)
(* call per run, on the state before the loop, with any arguments.         *)

FnInit ==
    /\ MainInit
    /\ pc = "loop"
    /\ icon_frames = <<1, 1, 1, 1>>
    /\ net_ip = "No IP"
    /\ sensor = None

MinTemp == 10
MaxTemp == 60

ColorArgs ==
    {<<None, AMBIENT_DEFAULT, TEMP_MAX_DEFAULT>>}
    \cup {<<Some(v), AMBIENT_DEFAULT, TEMP_MAX_DEFAULT>> : v \in MinTemp .. MaxTemp}
    \cup {<<Some(v), 30, 30>> : v \in MinTemp .. MaxTemp}
    \cup {<<Some(v), 40, 30>> : v \in MinTemp .. MaxTemp}

ColorCall(args) ==
    /\ call = NoCall
    /\ call' = [fn |-> "temp_to_color_bgr", args |-> args,
                result |-> temp_to_color_bgr(args[1], args[2], args[3])]
    /\ UNCHANGED <<mainVars, graph_img, icon_frames, samples, bg, pc>>

ColorNext == \E args \in ColorArgs : ColorCall(args)

SpecColor == FnInit /\ [][ColorNext]_vars

MaxOffset == 30

TickerTexts == {"", "IP", TickerText("No IP", AMBIENT_DEFAULT)}

TickerCall(text, offset_px, speed, spacer) ==
    /\ call = NoCall
    /\ call' = [fn |-> "draw_bottom_bar", text |-> text, speed |-> speed,
                spacer |-> spacer,
                result |-> DrawBottomBarWith(BOTTOM_LABEL, text, offset_px,
                                             speed, spacer)]
    /\ UNCHANGED <<mainVars, graph_img, icon_frames, samples, bg, pc>>

TickerNext ==
    \E text \in TickerTexts, offset_px \in 0 .. MaxOffset,
       speed \in {0, TICKER_SPEED_PX}, spacer \in {0, TICKER_SPACER_PX} :
        TickerCall(text, offset_px, speed, spacer)

SpecTicker == FnInit /\ [][TickerNext]_vars

MaxIconFrames == 3

FrameInit ==
    /\ MainInit
    /\ pc = "loop"
    /\ icon_frames \in [1 .. 4 -> {1, MaxIconFrames}]
    /\ net_ip = "No IP"
    /\ sensor = None

StateLists == UNION {[1 .. n -> 0 .. 3] : n \in {0, 3, 4}}

FrameCall(fidx, states) ==
    /\ call = NoCall
    /\ LET r == make_frame(fidx, ip_cache, states, current_ambient,
                           TickerText(ip_cache, current_ambient),
                           ticker_offset, graph_img, icon_frames)
       IN  /\ call' = [fn |-> "make_frame", states |-> states, result |-> r]
           /\ graph_img' = r.globals.graph_img
           /\ bg' = r.globals.bg
    /\ UNCHANGED <<mainVars, icon_frames, samples, pc>>

FrameNext ==
    \E fidx \in 0 .. MaxIconFrames, states \in StateLists :
        FrameCall(fidx, states)

SpecFrame == FrameInit /\ [][FrameNext]_vars

\* The loop with every call returning and time advancing: an iteration that
\* has started also ends. One iteration of a run may miss its display
\* deadline; the run is cut after LiveFrames frames.
LiveFrames == 12

LiveStep(work, over) ==
    /\ hist.frames < LiveFrames
    /\ IF NextFrame(clock, next_t) - (clock + work) > 0 THEN TRUE
       ELSE over = 0 /\ ~hist.overran
    /\ Iterate(work, over, net_ip, sensor, FakeSteady)

LiveNext == \E work \in SchedWorks, over \in Oversleeps : LiveStep(work, over)

SpecLive == SchedInit /\ [][LiveNext]_vars /\ WF_vars(LiveNext)

-----------------------------------------------------------------------------
(* Start of the program: the icon frames are loaded, then main() runs.     *)

StartFrames == 3

StartInit ==
    /\ MainInit
    /\ pc = "load"
    /\ icon_frames = <<>>
    /\ net_ip = "No IP"
    /\ sensor = None

\* `if not paths: raise RuntimeError(...)` for a name with n files
SkipMissing(n) == "load"

AfterGlob(n) == IF n = 0 THEN "fatal" ELSE "load"

\* one round of `for name in ICON_NAMES`, glob finding n files for the name
LoadIcon(n) ==
    /\ pc = "load"
    /\ Len(icon_frames) < Len(ICON_NAMES)
    /\ pc' = AfterGlob(n)
    /\ icon_frames' = IF pc' = "load" THEN Append(icon_frames, n) ELSE icon_frames
    /\ call' = [fn |-> "glob", name |-> ICON_NAMES[Len(icon_frames) + 1],
                found |-> n]
    /\ UNCHANGED <<mainVars, graph_img, samples, bg>>

\* the rest of the module runs and main() is called
EnterMain ==
    /\ pc = "load"
    /\ Len(icon_frames) = Len(ICON_NAMES)
    /\ pc' = "loop"
    /\ UNCHANGED <<mainVars, graph_img, icon_frames, samples, call, bg>>

StartStep ==
    /\ hist.frames < StartFrames
    /\ Iterate(0, 0, net_ip, sensor, FakeSteady)

StartNext ==
    \/ \E n \in 0 .. MaxIconFrames : LoadIcon(n)
    \/ EnterMain
    \/ StartStep

SpecStart == StartInit /\ [][StartNext]_vars

-----------------------------------------------------------------------------
(* The loop with failing calls: main() has no try/except, so an exception  *)
(* raised by graph_tick, make_frame or device.display leaves the loop and  *)
(* ends the program.                                                       *)

FaultFrames == 15

Faults == {"graph_tick", "make_frame", "device.display"}

\* One iteration in which the call `where` raises: the statements before
\* the call have run, the call itself and everything after it has not.
Raise(where) ==
    LET now == clock
        poll == Due(now, ip_next)
        ip1 == IF poll THEN net_ip ELSE ip_cache
        tick == Due(now, next_tick)
        ambient_c == Fallback(sensor, FakeSteady)
        amb1 == IF tick THEN ambient_c ELSE current_ambient
        args == <<Some(ambient_c), AMBIENT_DEFAULT, TEMP_MAX_DEFAULT>>
        ticked == tick /\ where # "graph_tick"
        graph1 == IF ticked
                  THEN graph_tick(graph_img, args[1], args[2], args[3])
                  ELSE graph_img
        fr == make_frame(frame_idx, ip1, <<FANS, PROBES, PUMPS, FLOW>>, amb1,
                         TickerText(ip1, amb1), ticker_offset, graph1,
                         icon_frames)
    IN  /\ pc = "loop"
        /\ where = "graph_tick" => tick
        /\ pc' = "crashed"
        /\ ip_cache' = ip1
        /\ ip_next' = IF poll THEN NextPoll(now, ip_next) ELSE ip_next
        /\ fake_prev' = IF tick THEN ambient_c ELSE fake_prev
        /\ current_ambient' = amb1
        /\ graph_img' = graph1
        /\ samples' = IF ticked THEN Remember(args) ELSE samples
        /\ next_tick' = IF ticked THEN NextTick(now, next_tick) ELSE next_tick
        /\ ticker_offset' = IF where = "device.display" THEN fr.new_offset
                            ELSE ticker_offset
        /\ hist' = [hist EXCEPT !.polls = IF poll THEN @ + 1 ELSE @,
                                !.ticks = IF ticked THEN @ + 1 ELSE @,
                                !.fake_used = tick /\ sensor = None,
                                !.ticked = ticked,
                                !.raised = where]
        /\ UNCHANGED <<clock, next_t, frame_idx, shown, net_ip, sensor,
                       icon_frames, call, bg>>

FaultStep ==
    /\ hist.frames < FaultFrames
    /\ Iterate(0, 0, net_ip, sensor, FakeSteady)

FaultNext ==
    \/ FaultStep
    \/ \E where \in Faults : Raise(where)

SpecFault == LoopInit /\ [][FaultNext]_vars

-----------------------------------------------------------------------------
(* Properties of the graph buffer (checked under SpecGraph).               *)

\* What one call paints: the STEP_W columns graph_tick leaves at the right
\* edge, computed on a buffer that is one step wide.
Rendering(args) ==
    graph_tick(NewImage(STEP_W, GRID_H), args[1], args[2], args[3])

BarColumns == {x \in GRID_W - STEP_W .. GRID_W - 2 : x < GRID_W - STEP_W + Max(2, STEP_W - 1)}

Measurable(args) == args[1] # None /\ args[3] > args[2]

\* the rows of the newest bar columns that hold colour rgb are those from top
NewestBarIs(top, rgb) ==
    \A x \in BarColumns : \A y \in 0 .. GRID_H - 1 :
        (graph_img[x][y] = rgb) <=> (y >= top)

\* C1: after k calls of graph_tick, for every i in 1 .. min(k, w div s) the
\* columns w - i*s .. w - (i-1)*s - 1 hold exactly what the i-th most recent
\* call painted (bar columns and grid column), oldest at the left; the call
\* before those is no longer whole in the buffer: its first column is gone
\* and the columns left of the oldest whole sample hold only its tail.
C1_ShiftInvariant ==
    /\ GRID_W - (Capacity + 1) * STEP_W < 0
    /\ \A a \in {samples[i] : i \in 1 .. Len(samples)} :
         LET r == Rendering(a)
         IN  \A i \in 1 .. Len(samples) :
               samples[i] = a =>
                 \A j \in 0 .. STEP_W - 1 :
                   LET x == GRID_W - i * STEP_W + j
                   IN  IF i <= Capacity THEN graph_img[x] = r[j]
                       ELSE x >= 0 => graph_img[x] = r[j]

C1_Witness ==
    /\ hist.ticks > Capacity + 1
    /\ Len(samples) = Capacity + 1
    /\ samples[Capacity] # samples[1]
    /\ samples[Capacity] = samples[Capacity + 1]

\* C9 as the source has it: for a non-missing sample with tmax > ambient the
\* bar is bottom-anchored and bar_h is t * (h - 1) truncated, t the clamped
\* position of the value in [ambient, tmax]; the bar covers the rows
\* (h - 1) - bar_h .. h - 1 of the two bar columns.
C9_BarHeightTruncated ==
    (call.fn = "graph_tick" /\ Measurable(call.args)) =>
        LET a == call.args
            d == a[3] - a[2]
            n == Max(0, Min(d, a[1][1] - a[2]))
            bar_h == (n * (GRID_H - 1)) \div d
        IN  NewestBarIs((GRID_H - 1) - bar_h,
                        bgr_to_rgb(temp_to_color_bgr(a[1], a[2], a[3])))

C9_Witness ==
    /\ call.fn = "graph_tick"
    /\ call.args = <<Some(35), AMBIENT_DEFAULT, TEMP_MAX_DEFAULT>>
    /\ Len(samples) > 1

\* C9 as claimed: the bar height is round(t * (h - 1)); 20, 35, 50 on the
\* scale 20..50 give 0, round(0.5 * (h - 1)) and h - 1.
C9_BarHeightRounded ==
    (call.fn = "graph_tick" /\ Measurable(call.args)) =>
        LET a == call.args
            d == a[3] - a[2]
            n == Max(0, Min(d, a[1][1] - a[2]))
            rounded == (2 * n * (GRID_H - 1) + d) \div (2 * d)
        IN  NewestBarIs((GRID_H - 1) - rounded,
                        bgr_to_rgb(temp_to_color_bgr(a[1], a[2], a[3])))

\* C10 as claimed: with tmax <= ambient every non-missing sample is drawn as
\* t = 1: the bar has the colour of a sample at the top of the scale and the
\* full height h - 1.
C10_DegenerateScaleIsFull ==
    (call.fn = "graph_tick" /\ call.args[1] # None /\ call.args[3] <= call.args[2]) =>
        NewestBarIs((GRID_H - 1) - (GRID_H - 1),
                    bgr_to_rgb(temp_to_color_bgr(Some(TEMP_MAX_DEFAULT),
                                                 AMBIENT_DEFAULT, TEMP_MAX_DEFAULT)))

-----------------------------------------------------------------------------
(* Properties of the gradient (checked under SpecColor).                   *)

\* the stops in the order the comment above BAR_BLUE and the docstring give
DOC_STOPS == <<BAR_BLUE, BAR_GREEN, BAR_YELLOW, BAR_RED>>

\* C8 as claimed: temp = ambient gives the coldest stop (blue), temp = tmax
\* the hottest (red), 1/3 of the range green and 2/3 yellow, and every value
\* in between the linear interpolation, channel by channel, of the two stops
\* around it.
C8_GradientBlueToRed ==
    (call.fn = "temp_to_color_bgr" /\ Measurable(call.args)) =>
        LET a == call.args
            t == Clamp01(a[1][1], a[2], a[3])
        IN  /\ a[1][1] = a[2] => call.result = BAR_BLUE
            /\ a[1][1] = a[3] => call.result = BAR_RED
            /\ 3 * t[1] = t[2] => call.result = BAR_GREEN
            /\ 3 * t[1] = 2 * t[2] => call.result = BAR_YELLOW
            /\ call.result = Gradient(DOC_STOPS, t[1], t[2])

-----------------------------------------------------------------------------
(* Properties of the ticker (checked under SpecTicker).                    *)

\* C6 as claimed: with a zero-length text or a zero speed the returned
\* offset is 0 for every input offset.
C6_DegeneratePinned ==
    (call.fn = "draw_bottom_bar" /\ (call.result.tw = 0 \/ call.speed = 0)) =>
        call.result.new_offset = 0

\* C6 as the source has it: the returned offset is pinned at 0 when the
\* cycle tw + spacer is <= 0; otherwise it lies in 0 .. cycle - 1 and is
\* offset + speed less a whole number of cycles, also for an empty text
\* (cycle = spacer) and for speed 0 (the offset is only reduced modulo the
\* cycle); no case divides by a zero cycle.
C6_PinnedOnlyWithoutCycle ==
    call.fn = "draw_bottom_bar" =>
        LET r == call.result
            cycle == r.tw + call.spacer
            target == r.offset_in + call.speed
        IN  IF cycle <= 0 THEN r.new_offset = 0
            ELSE /\ 0 <= r.new_offset /\ r.new_offset < cycle
                 /\ \E k \in 0 .. target : target = r.new_offset + k * cycle

C6_Witness ==
    /\ call.fn = "draw_bottom_bar"
    /\ call.result.tw = 0
    /\ call.spacer = TICKER_SPACER_PX
    /\ call.speed = TICKER_SPEED_PX
    /\ call.result.offset_in = 5
    /\ call.result.new_offset = 6

-----------------------------------------------------------------------------
(* Properties of the composer (checked under SpecFrame).                   *)

\* C7: in every frame composed by make_frame a tile whose state is NoSignal
\* (0) shows icon frame 0, whatever frame_idx and the icon's frame count.
C7_IdleIcon ==
    call.fn = "make_frame" =>
        \A idx \in 0 .. 3 :
            call.result.img.tiles[idx].state = 0 =>
                call.result.img.tiles[idx].icon = 0

C7_Witness ==
    /\ call.fn = "make_frame"
    /\ \E idx \in 0 .. 3 :
          /\ idx < Len(call.states)
          /\ call.states[idx + 1] = 0
          /\ call.result.img.tiles[idx].icon = 0
          /\ call.result.img.frame_idx % icon_frames[idx + 1] # 0

-----------------------------------------------------------------------------
(* Properties of the main loop.                                            *)

\* the ticker part of the frame on the display
Bar == shown[1].bar

Cycle(tw) == tw + TICKER_SPACER_PX

\* C5 as claimed: in every frame, the offset draw_bottom_bar is called with
\* and the offset it returns both lie in 0 .. cycle - 1 for the cycle of
\* the text drawn in that frame, also when the text changed width.
C5_OffsetsWithinCycle ==
    shown # None =>
        /\ 0 <= Bar.offset_in /\ Bar.offset_in < Cycle(Bar.tw)
        /\ 0 <= Bar.new_offset /\ Bar.new_offset < Cycle(Bar.tw)

\* C5 as the source has it: the offset returned in a frame lies in
\* 0 .. cycle - 1 for the cycle of that frame's text; the offset passed in
\* is the one returned by the previous frame (0 in the first frame), so it
\* lies within the cycle of the previous frame's text, and within the
\* cycle of this frame's text when that text is not narrower.
C5_ReturnedOffsetWithinCycle ==
    shown # None =>
        /\ 0 <= Bar.new_offset /\ Bar.new_offset < Cycle(Bar.tw)
        /\ Bar.new_offset = ticker_offset
        /\ 0 <= Bar.offset_in
        /\ IF hist.prev_tw = None THEN Bar.offset_in = 0
           ELSE /\ Bar.offset_in < Cycle(hist.prev_tw[1])
                /\ hist.prev_tw[1] <= Bar.tw => Bar.offset_in < Cycle(Bar.tw)

\* a frame whose text is narrower than the previous frame's, entered with
\* an offset beyond its own cycle
C5_Witness ==
    /\ shown # None
    /\ hist.prev_tw # None
    /\ Bar.tw < hist.prev_tw[1]
    /\ Bar.offset_in >= Cycle(Bar.tw)
    /\ Bar.new_offset < Cycle(Bar.tw)

\* how late the last graph tick ran after the deadline it served
TickLate == hist.tick_at[1] - hist.tick_due[1]

\* C2 as claimed: a graph tick that ran more than TICK_S after its
\* deadline leaves the deadline at now + TICK_S, and no graph tick serves a
\* deadline older than the previous graph tick (no catching up).
C2_NoCatchUp ==
    hist.tick_at # None =>
        /\ TickLate > TICK => next_tick = hist.tick_at[1] + TICK
        /\ hist.tick_prev_at # None => hist.tick_due[1] >= hist.tick_prev_at[1]

\* the fire counts of the three tasks against the elapsed time
Elapsed == clock

Within1(count, interval) ==
    /\ count >= (Elapsed \div interval) - 1
    /\ count <= (Elapsed \div interval) + 1

ClaimedStep(old, new, ran_at, interval) ==
    \/ new = old
    \/ ran_at - old <= interval /\ new = old + interval
    \/ ran_at - old > interval /\ new \in {ran_at, ran_at + interval}

-----------------------------------------------------------------------------
(* Missing samples (C11 under SpecGraph, C12 under SpecLoop).              *)

NEUTRAL_RGB == <<120, 120, 120>>

\* what draw_h_grid_segment leaves in row y of the columns before the last
GridPixel(y) == IF y % H_GRID_STEP = 0 THEN GRID_COLOR_H ELSE BLACK

\* the colour of a bar for a reading at the bottom of the scale (t = 0)
ZeroColor == bgr_to_rgb(temp_to_color_bgr(Some(AMBIENT_DEFAULT), AMBIENT_DEFAULT,
                                          TEMP_MAX_DEFAULT))

\* C11 as claimed: graph_tick(None) paints no bar pixel in the new columns
\* (a zero-height bar); the neutral colour (120,120,120) differs from the
\* colour for t = 0.
C11_MissingPaintsNoBar ==
    (call.fn = "graph_tick" /\ call.args[1] = None) =>
        /\ \A x \in BarColumns : \A y \in 0 .. GRID_H - 1 :
              graph_img[x][y] = GridPixel(y)
        /\ NEUTRAL_RGB # ZeroColor

\* C11 as the source has it: graph_tick(None) returns normally and paints
\* the bottom row of the two bar columns, and no other row, in the neutral
\* colour (120,120,120): bar_h = 0 draws the line from row h - 1 to row
\* h - 1, one pixel.  The rows above hold the grid, the last column the
\* vertical grid line.  The neutral colour is not the colour for t = 0, so
\* the column differs from the column of a reading at the bottom of the
\* scale in colour only, not in height.
C11_MissingIsOneNeutralRow ==
    (call.fn = "graph_tick" /\ call.args[1] = None) =>
        /\ NewestBarIs(GRID_H - 1, NEUTRAL_RGB)
        /\ \A x \in BarColumns : \A y \in 0 .. GRID_H - 2 :
              graph_img[x][y] = GridPixel(y)
        /\ \A y \in 0 .. GRID_H - 1 : graph_img[GRID_W - 1][y] = GRID_COLOR_V
        /\ NEUTRAL_RGB # ZeroColor
        /\ LET zero == Rendering(<<Some(AMBIENT_DEFAULT), AMBIENT_DEFAULT,
                                   TEMP_MAX_DEFAULT>>)
           IN  \A x \in BarColumns :
                 LET j == x - (GRID_W - STEP_W)
                 IN  /\ zero[j][GRID_H - 1] = ZeroColor
                     /\ \A y \in 0 .. GRID_H - 2 : zero[j][y] = graph_img[x][y]

\* a missing sample appended after a measured one
C11_Witness ==
    /\ call.fn = "graph_tick"
    /\ call.args[1] = None
    /\ Len(samples) > 1
    /\ samples[2][1] # None
    /\ graph_img[GRID_W - STEP_W][GRID_H - 1] = NEUTRAL_RGB

\* the columns the last graph tick of the loop appended
NewestColumns == [j \in 0 .. STEP_W - 1 |-> graph_img[GRID_W - STEP_W + j]]

\* C12 as claimed: on a graph tick where read_ambient_c returned None the
\* appended column is the neutral one and next_fake_temp was called; on a
\* tick with a reading it was not called and the reading was appended.
C12_MissingIsNeutralInLoop ==
    /\ hist.fake_used <=> (hist.ticked /\ sensor = None)
    /\ (hist.ticked /\ sensor = None) =>
          NewestColumns = Rendering(<<None, AMBIENT_DEFAULT, TEMP_MAX_DEFAULT>>)
    /\ (hist.ticked /\ sensor # None) => samples[1][1] = sensor

\* C12 as the source has it: next_fake_temp is called exactly on the graph
\* ticks where read_ambient_c returned None, and its value, which lies in
\* ambient .. tmax, takes the place of the reading: it is what graph_tick
\* draws, in the gradient colour and height of that value, never the neutral
\* column; it is kept as _fake_prev and as current_ambient.  main never
\* passes None to graph_tick.  A tick with a reading appends the reading,
\* which also becomes _fake_prev.
C12_FakeValueIsDrawn ==
    /\ hist.fake_used <=> (hist.ticked /\ sensor = None)
    /\ hist.ticked =>
          /\ samples[1][1] # None
          /\ NewestColumns = Rendering(samples[1])
          /\ NewestColumns # Rendering(<<None, AMBIENT_DEFAULT, TEMP_MAX_DEFAULT>>)
          /\ current_ambient = samples[1][1][1]
          /\ fake_prev = samples[1][1][1]
          /\ sensor # None => samples[1][1] = sensor
          /\ sensor = None =>
                samples[1][1][1] \in AMBIENT_DEFAULT .. TEMP_MAX_DEFAULT

\* the reading 5, then two ticks without a reading: the fake value starts
\* from the reading clamped to the scale and then moves
C12_Witness ==
    /\ hist.ticked
    /\ hist.fake_used
    /\ sensor = None
    /\ Len(samples) = 3
    /\ samples[3][1] = Some(5)
    /\ samples[2][1] = Some(AMBIENT_DEFAULT)
    /\ samples[1][1] = Some(AMBIENT_DEFAULT + FAKE_JUMP)

-----------------------------------------------------------------------------
(* The composer in the loop (checked under SpecLoop).                      *)

\* C13: a call of make_frame leaves bg, graph_img, the tile states and the
\* frame counter as they were (the frame is drawn on a copy of bg, holds the
\* buffer as it is, the states of the configuration and the counter it was
\* called with), and in the whole run graph_img changes in an iteration
\* only by the graph_tick of that iteration.
C13_FrameCondition ==
    [][/\ bg' = bg
       /\ icon_frames' = icon_frames
       /\ graph_img' = IF hist'.ticked
                       THEN graph_tick(graph_img, samples'[1][1], samples'[1][2],
                                       samples'[1][3])
                       ELSE graph_img
       /\ shown'[1].base = bg
       /\ shown'[1].graph = graph_img'
       /\ shown'[1].frame_idx = frame_idx
       /\ frame_idx' = (frame_idx + 1) % MAX_FRAMES
       /\ \A idx \in 0 .. 3 :
             shown'[1].tiles[idx].state = <<FANS, PROBES, PUMPS, FLOW>>[idx + 1]]_vars

\* a frame composed after the second graph tick, in an iteration without one
C13_Witness ==
    /\ hist.ticks >= 2
    /\ ~hist.ticked
    /\ shown # None
    /\ shown[1].graph = graph_img
    /\ graph_img # NewImage(GRID_W, GRID_H)
    /\ bg = BG

-----------------------------------------------------------------------------
(* Tiles without a state (checked under SpecFrame).                        *)

\* C14: make_frame given fewer than 4 states draws all 4 tiles; a tile with
\* an entry shows that state, a tile without one is NoSignal throughout:
\* colour (50,50,50), icon frame 0, label "No".
C14_UnmatchedTileIsNoSignal ==
    (call.fn = "make_frame" /\ Len(call.states) < 4) =>
        LET tiles == call.result.img.tiles
        IN  /\ DOMAIN tiles = 0 .. 3
            /\ \A idx \in 0 .. 3 :
                  IF idx < Len(call.states)
                  THEN tiles[idx].state = call.states[idx + 1]
                  ELSE /\ tiles[idx].state = 0
                       /\ tiles[idx].color = <<50, 50, 50>>
                       /\ tiles[idx].icon = 0
                       /\ tiles[idx].label = "No"
                       /\ tiles[idx].name = ICON_NAMES[idx + 1]

\* three states, all active, on a frame counter that would animate the
\* fourth icon
C14_Witness ==
    /\ call.fn = "make_frame"
    /\ call.states = <<1, 2, 3>>
    /\ icon_frames[4] = MaxIconFrames
    /\ call.result.img.frame_idx % icon_frames[4] # 0
    /\ call.result.img.tiles[3].label = "No"
    /\ call.result.img.tiles[2].label = "Bad"

-----------------------------------------------------------------------------
(* Loading of the icons (checked under SpecStart).                         *)

\* C15: a name without a frame ends the start in a fatal error, before
\* main() is entered and with no frame on the display; whenever the loop
\* runs, each of the four icons has at least one frame and MAX_FRAMES >= 1.
C15_FailFast ==
    /\ (call.fn = "glob" /\ call.found = 0) <=> pc = "fatal"
    /\ pc = "fatal" => (shown = None /\ hist.frames = 0)
    /\ shown # None => pc = "loop"
    /\ pc = "loop" =>
          /\ Len(icon_frames) = Len(ICON_NAMES)
          /\ \A i \in 1 .. Len(icon_frames) : icon_frames[i] >= 1
          /\ MAX_FRAMES >= 1
          /\ frame_idx \in 0 .. MAX_FRAMES - 1

\* the third name has no frame
C15_Witness ==
    /\ pc = "fatal"
    /\ call.fn = "glob"
    /\ call.name = "pump"
    /\ icon_frames = <<1, MaxIconFrames>>

-----------------------------------------------------------------------------
(* Failing calls (checked under SpecFault).                                *)

\* C16 as claimed: an exception in graph_tick, make_frame or device.display
\* costs that frame only; the loop goes on with the next iteration.
C16_FaultContained ==
    hist.raised # "nothing" => pc = "loop"

-----------------------------------------------------------------------------
(* Order of an iteration (checked under SpecLoop).                         *)

\* C17: every iteration polls the address if due, then advances the graph
\* if due, then composes and displays exactly one frame, then increments
\* the frame counter; so the frame of an iteration shows the address polled
\* in it, and the frame of a ticking iteration holds the column of the new
\* sample and shows that sample as the ambient value of the ticker text
\* and of the graph label.
C17_IterationOrder ==
    [][/\ hist'.frames = hist.frames + 1
       /\ shown' # None
       /\ hist'.polls = hist.polls + (IF clock >= ip_next THEN 1 ELSE 0)
       /\ clock >= ip_next => ip_cache' = net_ip'
       /\ hist'.ticked = (clock >= next_tick)
       /\ hist'.ticks = hist.ticks + (IF clock >= next_tick THEN 1 ELSE 0)
       /\ shown'[1].bar.text = TickerText(ip_cache', current_ambient')
       /\ shown'[1].amb_txt = Fmt1(current_ambient') \o DEG_C
       /\ shown'[1].graph = graph_img'
       /\ hist'.ticked =>
             /\ samples'[1][1] = Some(current_ambient')
             /\ \A j \in 0 .. STEP_W - 1 :
                   shown'[1].graph[GRID_W - STEP_W + j] = Rendering(samples'[1])[j]
       /\ shown'[1].frame_idx = frame_idx
       /\ frame_idx' = (frame_idx + 1) % MAX_FRAMES]_vars

\* the frame of a ticking iteration whose sample differs from the ambient
\* value shown before
C17_Witness ==
    /\ hist.ticked
    /\ hist.ticks = 2
    /\ samples[1][1] = Some(35)
    /\ samples[2][1] = Some(5)
    /\ shown[1].amb_txt = "35.0" \o DEG_C
    /\ shown[1].graph = graph_img

-----------------------------------------------------------------------------
(* Animation of the icons (checked under SpecLoop).                        *)

\* C18 as claimed: from one presented frame to the next, the icon frame of
\* a tile that stays active advances by 1 modulo that icon's own number of
\* frames, and the shared counter stays in 0 .. MAX_FRAMES - 1.
C18_UniformCycle ==
    [][/\ frame_idx' \in 0 .. MAX_FRAMES - 1
       /\ shown # None =>
             \A idx \in 0 .. 3 :
                (shown[1].tiles[idx].state # 0 /\ shown'[1].tiles[idx].state # 0) =>
                    shown'[1].tiles[idx].icon =
                        (shown[1].tiles[idx].icon + 1) % icon_frames[idx + 1]]_vars

-----------------------------------------------------------------------------
(* Progress of the loop (checked under SpecLive).                          *)

\* C19: while the run is not cut, the loop has a next iteration and takes
\* it, so the frames keep coming up to the cut; a graph deadline that is due
\* is served by a graph_tick, and an IP-poll deadline that is due by a
\* poll, in the very next iteration, which presents one more frame.
C19_LoopIsLive ==
    /\ [](hist.frames < LiveFrames => ENABLED LiveNext)
    /\ <>(hist.frames = LiveFrames /\ shown # None)
    /\ (hist.frames < LiveFrames /\ clock >= next_tick) ~> hist.ticked
    /\ [][/\ clock >= next_tick => (hist'.ticked /\ hist'.tick_due = Some(next_tick))
          /\ clock >= ip_next => hist'.polls = hist.polls + 1
          /\ hist'.frames = hist.frames + 1
          /\ shown' # None]_vars

\* a graph tick that served, in the iteration after a stall, a deadline that
\* had become due more than TICK_S before
C19_Witness ==
    /\ hist.ticked
    /\ hist.overran
    /\ TickLate > TICK
    /\ hist.frames < LiveFrames
    /\ clock >= next_tick

====
